---------------------------- MODULE Spec2Model ----------------------------
(***************************************************************************)
(* go-to-wheel: a Go command-line program is cross-compiled per platform   *)
(* and each executable is packed into a Python wheel.                      *)
(*                                                                         *)
(* Text is a sequence of one-character strings wherever the code looks     *)
(* inside it (names, versions, entry points, archive paths); a piece the   *)
(* code only copies (a platform tag, a fixed block of a template, one byte *)
(* of an executable) is one element of the sequence.                       *)
(***************************************************************************)
EXTENDS Integers, Sequences, FiniteSets, TLC

VARIABLES
    pc,            \* position of the running program
    call,          \* arguments of the build_wheel call in progress / last made
    ret,           \* value returned by the last build_wheel call
    disk,          \* output file system: path -> archive file
    args,          \* arguments of build_wheels / the command line
    env,           \* what the run finds: source directory, README file, compiler
    idx,           \* build_wheels: index of the next requested platform
    built_wheels,  \* build_wheels: paths appended so far
    stdout,        \* lines printed on standard output
    stderr,        \* lines printed on standard error
    compiles,      \* compiler invocations made, in order
    packs,         \* build_wheel invocations made by build_wheels, in order
    tmp,           \* temporary directory: path -> executable bytes
    out_dir_made,  \* whether build_wheels has created the output directory
    exc,           \* the exception in flight (type "" when there is none)
    exit_code,     \* exit status of the command, or -1 while running
    loc,           \* local variables of main and build_wheels
    sh,            \* the installed launcher (generated __init__.py) at run time
    par,           \* per-target builds started side by side: key -> position
    bw             \* build_wheel step by step: its dict `files` and the manifest

wheel_vars  == <<call, ret, disk>>
driver_vars == <<args, env, idx, built_wheels, stdout, stderr, compiles, packs,
                 tmp, out_dir_made, exc, exit_code, loc>>
vars == <<pc, call, ret, disk, args, env, idx, built_wheels, stdout, stderr,
          compiles, packs, tmp, out_dir_made, exc, exit_code, loc, sh, par, bw>>

-----------------------------------------------------------------------------
(* Bounds of the model *)

\* longest executable (in bytes) handed to build_wheel
MaxBinLen == 2
\* longest list of requested platforms
MaxPlatforms == 3

-----------------------------------------------------------------------------
(* Text *)

\* Python's None; no text is equal to it
None == <<"<None>">>

\* bool(s) for an optional string: None and "" are false
Truthy(s) == s /= None /\ s /= <<>>

INIT_PY == <<"_", "_", "i", "n", "i", "t", "_", "_", ".", "p", "y">>
MAIN_PY == <<"_", "_", "m", "a", "i", "n", "_", "_", ".", "p", "y">>
BIN_DIR == <<"b", "i", "n">>
EXE == <<".", "e", "x", "e">>
DIST_INFO == <<".", "d", "i", "s", "t", "-", "i", "n", "f", "o">>
METADATA == <<"M", "E", "T", "A", "D", "A", "T", "A">>
WHEEL == <<"W", "H", "E", "E", "L">>
ENTRY_POINTS_TXT == <<"e", "n", "t", "r", "y", "_", "p", "o", "i", "n", "t", "s", ".", "t", "x", "t">>
RECORD == <<"R", "E", "C", "O", "R", "D">>
PY3_NONE == <<"-", "p", "y", "3", "-", "n", "o", "n", "e", "-">>
WHL == <<".", "w", "h", "l">>
SLASH_BIN_SLASH == <<"/", "b", "i", "n", "/">>

UPPER == <<"A", "B", "C", "D", "E", "F", "G", "H", "I", "J", "K", "L", "M",
           "N", "O", "P", "Q", "R", "S", "T", "U", "V", "W", "X", "Y", "Z">>
LOWER == <<"a", "b", "c", "d", "e", "f", "g", "h", "i", "j", "k", "l", "m",
           "n", "o", "p", "q", "r", "s", "t", "u", "v", "w", "x", "y", "z">>

\* str.replace(old, new) for one-character old and new
replace(s, old, new) == [i \in 1..Len(s) |-> IF s[i] = old THEN new ELSE s[i]]

\* str.lower()
lower(s) ==
    [i \in 1..Len(s) |->
        IF \E k \in 1..26 : UPPER[k] = s[i]
        THEN LOWER[CHOOSE k \in 1..26 : UPPER[k] = s[i]]
        ELSE s[i]]

\* str.endswith(suffix)
endswith(s, suffix) ==
    /\ Len(suffix) <= Len(s)
    /\ SubSeq(s, Len(s) - Len(suffix) + 1, Len(s)) = suffix

\* sub in s
contains(s, sub) ==
    \E i \in 1..(Len(s) - Len(sub) + 1) : SubSeq(s, i, i + Len(sub) - 1) = sub

\* a non-ASCII character of a README, and the two bytes UTF-8 gives it
E_ACUTE == "U+00E9"

\* GREEK UPSILON WITH HOOK SYMBOL: an uppercase letter (category Lu) that has
\* no lowercase form, so str.lower() keeps it
UPSILON_HOOK == "U+03D2"

RECURSIVE encode_utf8(_)
\* str.encode("utf-8"): one byte per ASCII character, two for U+00E9
encode_utf8(s) ==
    IF Len(s) = 0 THEN <<>>
    ELSE IF Len(s) = 1
         THEN (IF s[1] = E_ACUTE THEN <<"0xC3", "0xA9">> ELSE s)
    ELSE LET h == Len(s) \div 2
         IN  encode_utf8(SubSeq(s, 1, h)) \o encode_utf8(SubSeq(s, h + 1, Len(s)))

RECURSIVE join_lines(_)
\* "\n".join(lines)
join_lines(lines) ==
    IF Len(lines) = 0 THEN <<>>
    ELSE IF Len(lines) = 1 THEN lines[1]
    ELSE lines[1] \o <<"\n">> \o join_lines(Tail(lines))

-----------------------------------------------------------------------------
(* Bit arithmetic on file modes *)

RECURSIVE BitAnd(_, _)
BitAnd(a, b) ==
    IF a = 0 \/ b = 0 THEN 0
    ELSE (a % 2) * (b % 2) + 2 * BitAnd(a \div 2, b \div 2)

\* a | b
BitOr(a, b) == a + b - BitAnd(a, b)

\* a << 16
Shl16(a) == a * 65536

S_IRWXU == 448
S_IXUSR == 64
S_IRGRP == 32
S_IXGRP == 8
S_IROTH == 4
S_IXOTH == 1
\* mode bits zipfile gives an entry written from a plain name: 0o600
ZIP_DEFAULT_MODE == 384
\* file type bits of st_mode for a regular file: 0o100000
S_IFREG == 32768
\* the bits of st_mode that os.chmod sets: 0o7777 + 1
CHMOD_RANGE == 4096

-----------------------------------------------------------------------------
(* Naming, hashing and the generated files *)

\* normalize_package_name without .replace("-", "_")
normalize_package_name_keeps_dashes(name) == lower(replace(name, ".", "_"))

\* normalize_package_name without the final .lower()
normalize_package_name_keeps_case(name) ==
    replace(replace(name, "-", "_"), ".", "_")

normalize_package_name(name) == lower(replace(replace(name, "-", "_"), ".", "_"))

\* normalize_import_name without .replace(".", "_")
normalize_import_name_keeps_dots(name) == lower(replace(name, "-", "_"))

normalize_import_name(name) == lower(replace(replace(name, "-", "_"), ".", "_"))

\* "sha256=" followed by the digest of the bytes; the digest is carried as
\* one element that names the bytes it was taken of (no two byte strings
\* share a digest)
compute_file_hash(data) == <<"sha256=", ToString(data)>>

\* the fixed blocks of the launcher template, around {version} and {binary_name}
INIT_PY_HEAD == "[docstring; imports] __version__ = "
INIT_PY_GET_BINARY_PATH ==
    "[def get_binary_path] os.path.join(os.path.dirname(__file__), bin, "
INIT_PY_MAIN == "[def main: chmod if not S_IXUSR; subprocess.call or os.execvp]"

\* the launcher module: the template with version and binary_name filled in
generate_init_py(version, binary_name) ==
    <<INIT_PY_HEAD>> \o version \o <<INIT_PY_GET_BINARY_PATH>> \o binary_name
    \o <<INIT_PY_MAIN>>

generate_main_py == <<"from . import main", "\n", "main()", "\n">>

generate_metadata(name, version, description, requires_python, author, author_email, license_, url, readme_content) ==
    LET lines0 == << <<"Metadata-Version: 2.1">>,
                     <<"Name: ">> \o name,
                     <<"Version: ">> \o version,
                     <<"Summary: ">> \o description >>
        lines1 == IF Truthy(author)
                  THEN Append(lines0, <<"Author: ">> \o author) ELSE lines0
        lines2 == IF Truthy(author_email)
                  THEN Append(lines1, <<"Author-email: ">> \o author_email) ELSE lines1
        lines3 == IF Truthy(license_)
                  THEN Append(lines2, <<"License: ">> \o license_) ELSE lines2
        lines4 == IF Truthy(url)
                  THEN Append(lines3, <<"Home-page: ">> \o url) ELSE lines3
        lines5 == Append(lines4, <<"Requires-Python: ">> \o requires_python)
        lines6 == IF Truthy(readme_content)
                  THEN lines5 \o << <<"Description-Content-Type: text/markdown">>,
                                    <<>>,
                                    readme_content >>
                  ELSE lines5
    IN  join_lines(lines6) \o <<"\n">>

generate_wheel_metadata(platform_tag) ==
    <<"Wheel-Version: 1.0", "\n",
      "Generator: go-to-wheel 0.1.0", "\n",
      "Root-Is-Purelib: false", "\n",
      "Tag: py3-none-", platform_tag, "\n">>

generate_entry_points(entry_point, import_name) ==
    <<"[console_scripts]", "\n">> \o entry_point \o <<" = ">> \o import_name
    \o <<":main", "\n">>

\* csv.writer.writerow of three fields none of which needs quoting
writerow(path, hash, length) ==
    path \o <<",">> \o hash \o <<",">> \o length \o <<"\r\n">>

RECURSIVE generate_record(_)
\* files: the dict as the sequence of its (path, content) items
generate_record(files) ==
    IF files = <<>> THEN <<>>
    ELSE LET path    == files[1][1]
             content == files[1][2]
         IN  (IF endswith(path, RECORD)
              THEN writerow(path, <<>>, <<>>)
              ELSE writerow(path, compute_file_hash(content),
                            <<ToString(Len(content))>>))
             \o generate_record(Tail(files))

\* dict_set that adds an item even when the key is there already
dict_set_always_appends(files, key, value) == Append(files, <<key, value>>)

\* files[key] = value on a dict kept as the sequence of its items: a new key
\* goes last, an existing key keeps its place
dict_set(files, key, value) ==
    IF \E i \in 1..Len(files) : files[i][1] = key
    THEN [i \in 1..Len(files) |->
            IF files[i][1] = key THEN <<key, value>> ELSE files[i]]
    ELSE Append(files, <<key, value>>)

\* os.path.join(a, b) on a POSIX host
path_join(a, b) ==
    IF Len(b) > 0 /\ b[1] = "/" THEN b
    ELSE IF a = <<>> \/ a[Len(a)] = "/" THEN a \o b
    ELSE a \o <<"/">> \o b

-----------------------------------------------------------------------------
(* build_wheel: the file set, the archive and its path *)

\* binary_name_of without the ".exe" of Windows
binary_name_of_never_exe(entry_point, is_windows) == entry_point

\* binary_name = entry_point + (".exe" if is_windows else "")
binary_name_of(entry_point, is_windows) ==
    entry_point \o (IF is_windows THEN EXE ELSE <<>>)

\* the dict `files` of build_wheel when the archive is written, as the
\* sequence of its items; c holds the arguments, c.binary_content the bytes
\* read from binary_path
wheel_files(c) ==
    LET normalized_name == normalize_package_name(c.name)
        import_name     == normalize_import_name(c.name)
        binary_name     == binary_name_of(c.entry_point, c.is_windows)
        init_content    == encode_utf8(generate_init_py(c.version, binary_name))
        main_content    == encode_utf8(generate_main_py)
        f1 == dict_set(<<>>, import_name \o <<"/">> \o INIT_PY, init_content)
        f2 == dict_set(f1, import_name \o <<"/">> \o MAIN_PY, main_content)
        f3 == dict_set(f2, import_name \o <<"/">> \o BIN_DIR \o <<"/">> \o binary_name,
                       c.binary_content)
        dist_info == normalized_name \o <<"-">> \o c.version \o DIST_INFO
        metadata_content ==
            encode_utf8(generate_metadata(c.name, c.version, c.description,
                                          c.requires_python, c.author,
                                          c.author_email, c.license_, c.url,
                                          c.readme_content))
        wheel_content == encode_utf8(generate_wheel_metadata(c.platform_tag))
        entry_points_content ==
            encode_utf8(generate_entry_points(c.entry_point, import_name))
        f4 == dict_set(f3, dist_info \o <<"/">> \o METADATA, metadata_content)
        f5 == dict_set(f4, dist_info \o <<"/">> \o WHEEL, wheel_content)
        f6 == dict_set(f5, dist_info \o <<"/">> \o ENTRY_POINTS_TXT,
                       entry_points_content)
        record_path == dist_info \o <<"/">> \o RECORD
        f7 == dict_set(f6, record_path, <<>>)
        record_content == encode_utf8(generate_record(f7))
    IN  dict_set(f7, record_path, record_content)

\* wheel_path_of with a wheel_name that leaves the platform tag out
wheel_path_of_no_tag(c) ==
    LET normalized_name == normalize_package_name(c.name)
        wheel_name == normalized_name \o <<"-">> \o c.version \o PY3_NONE \o WHL
    IN  path_join(c.output_dir, wheel_name)

\* wheel_name and wheel_path
wheel_path_of(c) ==
    LET normalized_name == normalize_package_name(c.name)
        wheel_name == normalized_name \o <<"-">> \o c.version \o PY3_NONE
                      \o <<c.platform_tag>> \o WHL
    IN  path_join(c.output_dir, wheel_name)

\* zip_external_attr with the test `"bin/" in file_path`
zip_external_attr_any_bin(file_path) ==
    IF contains(file_path, <<"b", "i", "n", "/">>)
    THEN Shl16(BitOr(S_IRWXU, BitOr(S_IRGRP, BitOr(S_IXGRP,
                                             BitOr(S_IROTH, S_IXOTH)))))
    ELSE Shl16(ZIP_DEFAULT_MODE)

\* ZipInfo.external_attr of the entry written for file_path
zip_external_attr(file_path) ==
    IF contains(file_path, SLASH_BIN_SLASH)
    THEN Shl16(BitOr(S_IRWXU, BitOr(S_IRGRP, BitOr(S_IXGRP,
                                             BitOr(S_IROTH, S_IXOTH)))))
    ELSE Shl16(ZIP_DEFAULT_MODE)

\* the archive the `with zipfile.ZipFile(...)` block leaves at wheel_path
zip_archive(files) ==
    [entries |-> [i \in 1..Len(files) |->
                    [filename      |-> files[i][1],
                     data          |-> files[i][2],
                     external_attr |-> zip_external_attr(files[i][1])]],
     closed  |-> TRUE]

\* the file system after path is written
write_file(fs, path, file) ==
    [p \in DOMAIN fs \cup {path} |-> IF p = path THEN file ELSE fs[p]]

-----------------------------------------------------------------------------
(* Inputs *)

n_my_cool_tool == <<"m", "y", "-", "c", "o", "o", "l", "-", "t", "o", "o", "l">>
n_My_Tool_X == <<"M", "y", "-", "T", "o", "o", "l", ".", "X">>
n_bin == <<"b", "i", "n">>
v_1_0_0 == <<"1", ".", "0", ".", "0">>
v_2_3_4 == <<"2", ".", "3", ".", "4">>
e_tool == <<"t", "o", "o", "l">>
e_RECORD == <<"R", "E", "C", "O", "R", "D">>
d_dist == <<"d", "i", "s", "t">>
d_out_slash == <<"o", "u", "t", "/">>

Names == {n_my_cool_tool, n_My_Tool_X, n_bin}
Versions == {v_1_0_0, v_2_3_4}
EntryPoints == {e_tool, e_RECORD}
OutputDirs == {d_dist, d_out_slash}
Tags == {"manylinux_2_17_x86_64", "win_amd64"}

Bytes == {"0x7F", "0x00"}
\* every executable of at most MaxBinLen bytes
BinaryContents == UNION {[1..n -> Bytes] : n \in 0..MaxBinLen}

\* README bodies: none, empty, ASCII, and one with a two-byte character
ReadmeContents ==
    {None, <<>>, <<"#", " ", "H", "i">>, <<"#", E_ACUTE, "\n", "x">>}

DEFAULT_DESCRIPTION == <<"Go binary packaged as Python wheel">>
DEFAULT_REQUIRES_PYTHON == <<">=3.10">>

\* the optional package attributes, in three combinations
Attributes ==
    { [description |-> DEFAULT_DESCRIPTION, requires_python |-> DEFAULT_REQUIRES_PYTHON,
       author |-> None, author_email |-> None, license_ |-> None, url |-> None],
      [description |-> <<"A tool">>, requires_python |-> <<">=3.8">>,
       author |-> <<"Ann">>, author_email |-> <<"ann@example.com">>,
       license_ |-> <<"MIT">>, url |-> <<"https://example.com">>],
      [description |-> DEFAULT_DESCRIPTION, requires_python |-> DEFAULT_REQUIRES_PYTHON,
       author |-> <<>>, author_email |-> None, license_ |-> <<"MIT">>, url |-> <<>>] }

\* the arguments of one build_wheel call
WheelCall(out, name, version, tag, ep, win, bin, readme, a) ==
    [binary_content |-> bin, output_dir |-> out, name |-> name,
     version |-> version, platform_tag |-> tag, entry_point |-> ep,
     is_windows |-> win, description |-> a.description,
     requires_python |-> a.requires_python, author |-> a.author,
     author_email |-> a.author_email, license_ |-> a.license_, url |-> a.url,
     readme_content |-> readme]

WheelCalls ==
    { WheelCall(out, name, version, tag, ep, win, bin, readme, a) :
        out \in OutputDirs, name \in Names, version \in Versions, tag \in Tags,
        ep \in EntryPoints, win \in BOOLEAN, bin \in BinaryContents,
        readme \in ReadmeContents, a \in Attributes }

NoCall == [binary_content |-> <<>>, output_dir |-> <<>>, name |-> <<>>,
           version |-> <<>>, platform_tag |-> "", entry_point |-> <<>>,
           is_windows |-> FALSE, description |-> <<>>,
           requires_python |-> <<>>, author |-> None,
           author_email |-> None, license_ |-> None, url |-> None,
           readme_content |-> None]

NoArgs == [go_dir |-> <<>>, name |-> None, version |-> <<>>, output_dir |-> <<>>,
           entry_point |-> None, platforms |-> None, go_binary |-> <<>>,
           readme |-> None, ldflags |-> None, set_version_var |-> None,
           description |-> <<>>, requires_python |-> <<>>, author |-> None,
           author_email |-> None, license_ |-> None, url |-> None]
NoEnv == [go_dir |-> "", go_name |-> <<>>, readme_file |-> None, go_found |-> FALSE]
NoLoc == [platforms |-> <<>>, readme_content |-> None, name |-> None,
          entry_point |-> None, combined_ldflags |-> None, out_path |-> <<>>,
          binary_path |-> <<>>]
EmptyFs == [p \in {} |-> 0]
\* build_wheel not entered: no dict, generate_record not called
NoFrame == [files |-> <<>>, assigned |-> 0, record_calls |-> 0,
            record_input |-> <<>>, record_content |-> <<>>]
\* no per-target build started side by side
NoTargets == [k \in {} |-> 0]
\* no process: the child of subprocess.call, or the image os.execvp loads
NoProcess == [file |-> <<>>, argv |-> <<>>, state |-> "none", returncode |-> <<0, 0>>]
\* no exit status yet
Running == <<-1, -1>>
ShIdle == [pc |-> "idle", platform |-> "", file_mode |-> 0, mode0 |-> 0,
           current_mode |-> 0, stat_calls |-> 0, chmod_calls |-> 0,
           how |-> "", invoked_mode |-> -1,
           file |-> <<>>, binary_name |-> <<>>, argv |-> <<>>, binary |-> <<>>,
           python |-> "none", child |-> NoProcess, image |-> NoProcess,
           exit_status |-> Running]

\* the driver and the launcher at rest
DriverIdle ==
    /\ args = NoArgs /\ env = NoEnv /\ idx = 0 /\ built_wheels = <<>>
    /\ stdout = <<>> /\ stderr = <<>> /\ compiles = <<>> /\ packs = <<>>
    /\ tmp = EmptyFs /\ out_dir_made = FALSE /\ exc = [type |-> "", msg |-> <<>>]
    /\ exit_code = -1
    /\ loc = NoLoc

-----------------------------------------------------------------------------
(* One call of build_wheel on its own *)

InitWheel ==
    /\ pc = "build_wheel"
    /\ call \in WheelCalls
    /\ ret = None
    /\ disk = EmptyFs
    /\ DriverIdle
    /\ sh = ShIdle
    /\ par = NoTargets
    /\ bw = NoFrame

\* build_wheel(binary_path, output_dir, name, ...) from entry to return
BuildWheel ==
    /\ pc = "build_wheel"
    /\ disk' = write_file(disk, wheel_path_of(call), zip_archive(wheel_files(call)))
    /\ ret' = wheel_path_of(call)
    /\ pc' = "build_wheel_done"
    /\ UNCHANGED <<call, driver_vars, sh, par, bw>>

NextWheel == BuildWheel

SpecWheel == InitWheel /\ [][NextWheel]_vars

-----------------------------------------------------------------------------
(* build_wheel statement by statement *)

\* the calls that are followed statement by statement
StepCalls ==
    { WheelCall(d_dist, name, v_1_0_0, "win_amd64", ep, win, bin, readme, a) :
        name \in Names, ep \in EntryPoints, win \in BOOLEAN,
        bin \in {<<>>, <<"0x7F", "0x00">>}, readme \in ReadmeContents,
        a \in Attributes }

\* the assignments `files[...] = ...` of build_wheel before generate_record is
\* called, in order: key and value of each
file_items(c) ==
    LET normalized_name == normalize_package_name(c.name)
        import_name     == normalize_import_name(c.name)
        binary_name     == binary_name_of(c.entry_point, c.is_windows)
        dist_info       == normalized_name \o <<"-">> \o c.version \o DIST_INFO
    IN  << <<import_name \o <<"/">> \o INIT_PY,
             encode_utf8(generate_init_py(c.version, binary_name))>>,
           <<import_name \o <<"/">> \o MAIN_PY, encode_utf8(generate_main_py)>>,
           <<import_name \o <<"/">> \o BIN_DIR \o <<"/">> \o binary_name,
             c.binary_content>>,
           <<dist_info \o <<"/">> \o METADATA,
             encode_utf8(generate_metadata(c.name, c.version, c.description,
                                           c.requires_python, c.author,
                                           c.author_email, c.license_, c.url,
                                           c.readme_content))>>,
           <<dist_info \o <<"/">> \o WHEEL,
             encode_utf8(generate_wheel_metadata(c.platform_tag))>>,
           <<dist_info \o <<"/">> \o ENTRY_POINTS_TXT,
             encode_utf8(generate_entry_points(c.entry_point, import_name))>>,
           <<dist_info \o <<"/">> \o RECORD, <<>> >> >>

InitWheelSteps ==
    /\ pc = "files"
    /\ call \in StepCalls
    /\ ret = None
    /\ disk = EmptyFs
    /\ DriverIdle
    /\ sh = ShIdle
    /\ par = NoTargets
    /\ bw = NoFrame

\* the next `files[key] = value`; the last one puts the placeholder
AssignNextFile ==
    /\ pc = "files"
    /\ LET item == file_items(call)[bw.assigned + 1]
       IN  bw' = [bw EXCEPT !.files = dict_set(bw.files, item[1], item[2]),
                            !.assigned = @ + 1]
    /\ pc' = IF bw.assigned + 1 = Len(file_items(call)) THEN "generate_record"
             ELSE "files"
    /\ UNCHANGED <<call, ret, disk, driver_vars, sh, par>>

\* record_content = generate_record(files).encode("utf-8")
GenerateRecord ==
    /\ pc = "generate_record"
    /\ bw' = [bw EXCEPT !.record_calls = @ + 1,
                        !.record_input = bw.files,
                        !.record_content = encode_utf8(generate_record(bw.files))]
    /\ pc' = "set_record"
    /\ UNCHANGED <<call, ret, disk, driver_vars, sh, par>>

\* files[record_path] = record_content
OverwritePlaceholder ==
    /\ pc = "set_record"
    /\ bw' = [bw EXCEPT !.files =
                  dict_set(bw.files, file_items(call)[Len(file_items(call))][1],
                           bw.record_content)]
    /\ pc' = "write"
    /\ UNCHANGED <<call, ret, disk, driver_vars, sh, par>>

\* the archive is written from files; return wheel_path
WriteArchive ==
    /\ pc = "write"
    /\ disk' = write_file(disk, wheel_path_of(call), zip_archive(bw.files))
    /\ ret' = wheel_path_of(call)
    /\ pc' = "build_wheel_done"
    /\ UNCHANGED <<call, driver_vars, sh, par, bw>>

NextWheelSteps ==
    AssignNextFile \/ GenerateRecord \/ OverwritePlaceholder \/ WriteArchive

SpecWheelSteps == InitWheelSteps /\ [][NextWheelSteps]_vars

-----------------------------------------------------------------------------
(* Reading an archive back: what the claims are stated in *)

\* the name as the specification normalizes it: lowercased, with every "-"
\* and "." replaced by "_"
NormalChar(ch) ==
    IF ch \in {"-", "."} THEN "_"
    ELSE IF \E k \in 1..26 : UPPER[k] = ch
         THEN LOWER[CHOOSE k \in 1..26 : UPPER[k] = ch]
    ELSE ch
Normalized(name) == [i \in 1..Len(name) |-> NormalChar(name[i])]

\* the part of a path after its last "/", and the part up to and with it
LastSlash(path) ==
    IF \E i \in 1..Len(path) : path[i] = "/"
    THEN CHOOSE i \in 1..Len(path) :
            path[i] = "/" /\ \A j \in (i + 1)..Len(path) : path[j] /= "/"
    ELSE 0
BaseName(path) == SubSeq(path, LastSlash(path) + 1, Len(path))
DirPrefix(path) == SubSeq(path, 1, LastSlash(path))

\* the archive the last build_wheel call wrote
Built == ret /= None /\ ret \in DOMAIN disk /\ disk[ret].closed
BuiltEntries == disk[ret].entries
EntryNames == [i \in 1..Len(BuiltEntries) |-> BuiltEntries[i].filename]

\* Unix mode of an entry: the high 16 bits of external_attr
ModeOf(entry) == entry.external_attr \div 65536
AnyExecuteBit(entry) == BitAnd(ModeOf(entry), 73) /= 0

\* {dist_name}-{version}.dist-info/ of the last call
DistInfoDir ==
    Normalized(call.name) \o <<"-">> \o call.version
    \o <<".", "d", "i", "s", "t", "-", "i", "n", "f", "o", "/">>
ManifestPath == DistInfoDir \o <<"R", "E", "C", "O", "R", "D">>
BinaryName ==
    call.entry_point \o (IF call.is_windows THEN <<".", "e", "x", "e">> ELSE <<>>)

\* the rows of a comma-separated text whose fields hold no comma: each row a
\* triple of fields, or <<line>> alone when the line has not three fields
CsvRows(text) ==
    LET ends == {i \in 1..Len(text) : text[i] = "\r\n"}
        start(e) == IF \E d \in ends : d < e
                    THEN (CHOOSE d \in ends :
                            d < e /\ \A x \in ends : x < e => x <= d) + 1
                    ELSE 1
        row(line) ==
            LET commas == {i \in 1..Len(line) : line[i] = ","}
            IN  IF Cardinality(commas) /= 2 THEN <<line>>
                ELSE LET c1 == CHOOSE i \in commas : \A j \in commas : i <= j
                         c2 == CHOOSE i \in commas : \A j \in commas : j <= i
                     IN  <<SubSeq(line, 1, c1 - 1), SubSeq(line, c1 + 1, c2 - 1),
                           SubSeq(line, c2 + 1, Len(line))>>
    IN  {row(SubSeq(text, start(e), e - 1)) : e \in ends}

\* the rows of the integrity manifest of the built archive
ManifestRows ==
    LET found == {i \in 1..Len(BuiltEntries) : BuiltEntries[i].filename = ManifestPath}
    IN  IF found = {} THEN {}
        ELSE CsvRows(BuiltEntries[CHOOSE i \in found : TRUE].data)

\* a path has a directory segment named bin
HasBinSegment(path) ==
    \E i \in 1..(Len(path) - 3) :
        /\ SubSeq(path, i, i + 3) = <<"b", "i", "n", "/">>
        /\ (i = 1 \/ path[i - 1] = "/")

-----------------------------------------------------------------------------
(* Claims about one archive *)

\* C1 (as claimed): every entry of a built archive other than the integrity
\* manifest has a manifest row with its path, the hash of its bytes and its
\* byte count, and only the manifest's own row has empty hash and length.
C1_ManifestComplete ==
    Built =>
        /\ \A i \in 1..Len(BuiltEntries) :
              BuiltEntries[i].filename /= ManifestPath =>
                  <<BuiltEntries[i].filename,
                    compute_file_hash(BuiltEntries[i].data),
                    <<ToString(Len(BuiltEntries[i].data))>> >> \in ManifestRows
        /\ \A r \in ManifestRows :
              /\ Len(r) = 3
              /\ (r[2] = <<>> \/ r[3] = <<>>) => r[1] = ManifestPath
        /\ <<ManifestPath, <<>>, <<>> >> \in ManifestRows

\* C2: build_wheel writes and returns the path, inside the output directory,
\* whose file name is {normalized name}-{version}-py3-none-{tag}.whl, a
\* function of name, version and tag alone.
C2_ArchiveFilename ==
    ret /= None =>
        /\ Built
        /\ BaseName(ret) =
              Normalized(call.name) \o <<"-">> \o call.version
              \o <<"-", "p", "y", "3", "-", "n", "o", "n", "e", "-">>
              \o <<call.platform_tag>> \o <<".", "w", "h", "l">>
        /\ DirPrefix(ret) =
              (IF call.output_dir[Len(call.output_dir)] = "/"
               THEN call.output_dir ELSE call.output_dir \o <<"/">>)
        /\ (/\ call.name = <<"m", "y", "-", "c", "o", "o", "l", "-", "t", "o", "o", "l">>
            /\ call.version = <<"1", ".", "0", ".", "0">>
            /\ call.platform_tag = "manylinux_2_17_x86_64")
           => BaseName(ret) =
                <<"m", "y", "_", "c", "o", "o", "l", "_", "t", "o", "o", "l",
                  "-", "1", ".", "0", ".", "0",
                  "-", "p", "y", "3", "-", "n", "o", "n", "e", "-",
                  "manylinux_2_17_x86_64", ".", "w", "h", "l">>

C2_Witness ==
    /\ Built
    /\ call.name = n_my_cool_tool
    /\ call.version = v_1_0_0
    /\ call.platform_tag = "manylinux_2_17_x86_64"

\* C3: a built archive holds exactly seven distinct entries, in the order
\* __init__.py, __main__.py, bin/{binary_name}, METADATA, WHEEL,
\* entry_points.txt, RECORD, with exactly one entry under {import_name}/bin/.
C3_ArchiveLayout ==
    Built =>
        LET pkg == Normalized(call.name) \o <<"/">>
            bin == pkg \o <<"b", "i", "n", "/">>
        IN  /\ EntryNames =
                 << pkg \o <<"_", "_", "i", "n", "i", "t", "_", "_", ".", "p", "y">>,
                    pkg \o <<"_", "_", "m", "a", "i", "n", "_", "_", ".", "p", "y">>,
                    bin \o BinaryName,
                    DistInfoDir \o <<"M", "E", "T", "A", "D", "A", "T", "A">>,
                    DistInfoDir \o <<"W", "H", "E", "E", "L">>,
                    DistInfoDir \o <<"e", "n", "t", "r", "y", "_", "p", "o", "i",
                                     "n", "t", "s", ".", "t", "x", "t">>,
                    ManifestPath >>
            /\ Cardinality({EntryNames[i] : i \in 1..Len(EntryNames)}) = 7
            /\ Cardinality({i \in 1..Len(EntryNames) :
                              /\ Len(EntryNames[i]) >= Len(bin)
                              /\ SubSeq(EntryNames[i], 1, Len(bin)) = bin}) = 1

C3_Witness ==
    /\ Built
    /\ Len(BuiltEntries) = 7
    /\ call.is_windows
    /\ call.name = n_My_Tool_X

\* C4 (as claimed): every entry whose path has a bin/ segment is stored with
\* mode 0755 and no other entry has an execute bit.
C4_BinSegmentExecutable ==
    Built =>
        \A i \in 1..Len(BuiltEntries) :
            IF HasBinSegment(BuiltEntries[i].filename)
            THEN ModeOf(BuiltEntries[i]) = 493
            ELSE ~AnyExecuteBit(BuiltEntries[i])

\* C4 (amended): every entry whose path contains "/bin/" (a bin directory
\* below the package directory, which the bundled executable's path always
\* has) is stored with mode 0755 and no other entry has an execute bit.
C4_BelowBinExecutable ==
    Built =>
        /\ \A i \in 1..Len(BuiltEntries) :
              IF \E k \in 1..(Len(BuiltEntries[i].filename) - 4) :
                    SubSeq(BuiltEntries[i].filename, k, k + 4)
                        = <<"/", "b", "i", "n", "/">>
              THEN ModeOf(BuiltEntries[i]) = 493
              ELSE ~AnyExecuteBit(BuiltEntries[i])
        /\ \E i \in 1..Len(BuiltEntries) :
              /\ BuiltEntries[i].filename =
                    Normalized(call.name) \o <<"/", "b", "i", "n", "/">> \o BinaryName
              /\ ModeOf(BuiltEntries[i]) = 493

\* a package named bin: its modules are under a bin/ segment, and are not
\* executable, while its executable is
C4_Witness ==
    /\ Built
    /\ call.name = n_bin
    /\ HasBinSegment(BuiltEntries[1].filename)
    /\ ModeOf(BuiltEntries[1]) = 384
    /\ ModeOf(BuiltEntries[3]) = 493

\* C9 (as claimed): the package metadata holds the Description-Content-Type
\* line exactly when a README was supplied, and then ends with that line, one
\* blank line and the README text, whatever the text (the empty one too).
C9_MarkerIffReadme ==
    Built =>
        LET found == {i \in 1..Len(BuiltEntries) :
                        BuiltEntries[i].filename
                            = DistInfoDir \o <<"M", "E", "T", "A", "D", "A", "T", "A">>}
            text == BuiltEntries[CHOOSE i \in found : TRUE].data
            marker == "Description-Content-Type: text/markdown"
        IN  /\ found /= {}
            /\ (\E i \in 1..Len(text) : text[i] = marker)
                  <=> call.readme_content /= None
            /\ call.readme_content /= None =>
                  endswith(text, <<marker, "\n", "\n">>
                                 \o encode_utf8(call.readme_content) \o <<"\n">>)

\* the paths of the rows of a comma-separated text, in the order of the rows
CsvRowPaths(text) ==
    LET ends == {i \in 1..Len(text) : text[i] = "\r\n"}
        nth(k) == CHOOSE e \in ends : Cardinality({d \in ends : d < e}) = k - 1
        line(k) == SubSeq(text, IF k = 1 THEN 1 ELSE nth(k - 1) + 1, nth(k) - 1)
        path(l) == IF \E i \in 1..Len(l) : l[i] = ","
                   THEN SubSeq(l, 1, (CHOOSE i \in 1..Len(l) :
                                        l[i] = "," /\ \A j \in 1..(i - 1) : l[j] /= ",") - 1)
                   ELSE l
    IN  [k \in 1..Cardinality(ends) |-> path(line(k))]

\* the manifest is generated from the file set whose other entries hold their
\* final content and whose manifest slot is the empty placeholder, and has
\* one row per entry, in the order of the entries, its own row last
GeneratedFromPlaceholder ==
    bw.record_calls = 1 =>
        LET n == Len(bw.record_input)
        IN  /\ n = 7 /\ Len(bw.files) = n
            /\ bw.record_input[n] = <<ManifestPath, <<>> >>
            /\ \A i \in 1..(n - 1) :
                  bw.files[i] = bw.record_input[i] /\ bw.files[i][1] /= ManifestPath
            /\ CsvRowPaths(bw.record_content)
                  = [i \in 1..n |-> bw.record_input[i][1]]
            /\ <<ManifestPath, <<>>, <<>> >> \in CsvRows(bw.record_content)
            /\ \A row \in CsvRows(bw.record_content) :
                  Len(row) = 3 /\ row[2] /= compute_file_hash(bw.record_content)

\* C17: the integrity manifest is generated once, from the file set in which
\* every other entry holds its final content and the manifest's slot an empty
\* placeholder; it has one row per entry in insertion order, its own row
\* last and without a hash; then the placeholder is overwritten with the
\* generated bytes, no other entry changes, and the archive holds exactly
\* that file set.
C17_TwoPassManifest ==
    /\ [](/\ bw.record_calls <= 1
          /\ bw.record_calls = 1 <=> pc \in {"set_record", "write", "build_wheel_done"}
          /\ GeneratedFromPlaceholder
          /\ pc = "set_record" => bw.files = bw.record_input
          /\ pc \in {"write", "build_wheel_done"} =>
                bw.files[7] = <<ManifestPath, bw.record_content>>
          /\ pc = "build_wheel_done" =>
                /\ Built
                /\ Len(BuiltEntries) = 7
                /\ \A i \in 1..7 :
                      /\ BuiltEntries[i].filename = bw.files[i][1]
                      /\ BuiltEntries[i].data = bw.files[i][2]
                /\ disk[ret] = zip_archive(wheel_files(call)))
    /\ [][bw.record_calls = 1 =>
            /\ bw'.record_content = bw.record_content
            /\ bw'.record_input = bw.record_input
            /\ Len(bw'.files) = Len(bw.files)
            /\ \A i \in 1..(Len(bw.files) - 1) : bw'.files[i] = bw.files[i]]_vars

\* the archive of My-Tool.X is written: its manifest entry holds the seven
\* rows that were generated while the slot was empty
C17_Witness ==
    /\ pc = "build_wheel_done"
    /\ call.name = <<"M", "y", "-", "T", "o", "o", "l", ".", "X">>
    /\ bw.record_calls = 1
    /\ bw.record_input[7][2] = <<>>
    /\ Len(CsvRowPaths(BuiltEntries[7].data)) = 7
    /\ BuiltEntries[7].data = bw.record_content
    /\ bw.record_content /= <<>>

-----------------------------------------------------------------------------
(* The two normalize functions on their own *)

\* longest name handed to the normalize functions
MaxNameLen == 3

NameChars == {"M", "y", "-", ".", "_", "1", UPSILON_HOOK}

\* every name of at most MaxNameLen characters, and two longer ones
NormalizeInputs ==
    UNION {[1..n -> NameChars] : n \in 0..MaxNameLen}
    \cup {n_My_Tool_X, n_my_cool_tool}

InitNormalize ==
    /\ pc = "normalize"
    /\ \E name \in NormalizeInputs : call = [NoCall EXCEPT !.name = name]
    /\ ret = None
    /\ disk = EmptyFs
    /\ DriverIdle
    /\ sh = ShIdle
    /\ par = NoTargets
    /\ bw = NoFrame

\* ret = normalize_package_name(name)
NormalizePackageName ==
    /\ pc = "normalize"
    /\ ret' = normalize_package_name(call.name)
    /\ pc' = "package_name"
    /\ UNCHANGED <<call, disk, driver_vars, sh, par, bw>>

\* ret = normalize_import_name(name)
NormalizeImportName ==
    /\ pc = "normalize"
    /\ ret' = normalize_import_name(call.name)
    /\ pc' = "import_name"
    /\ UNCHANGED <<call, disk, driver_vars, sh, par, bw>>

\* ret = normalize_package_name(ret)
NormalizePackageNameAgain ==
    /\ pc = "package_name"
    /\ ret' = normalize_package_name(ret)
    /\ pc' = "package_name_again"
    /\ UNCHANGED <<call, disk, driver_vars, sh, par, bw>>

\* ret = normalize_import_name(ret)
NormalizeImportNameAgain ==
    /\ pc = "import_name"
    /\ ret' = normalize_import_name(ret)
    /\ pc' = "import_name_again"
    /\ UNCHANGED <<call, disk, driver_vars, sh, par, bw>>

NextNormalize ==
    \/ NormalizePackageName \/ NormalizeImportName
    \/ NormalizePackageNameAgain \/ NormalizeImportNameAgain

SpecNormalize == InitNormalize /\ [][NextNormalize]_vars

\* an uppercase letter
IsUpper(ch) == (\E k \in 1..26 : UPPER[k] = ch) \/ ch = "U+03D2"
\* an uppercase letter that has a lowercase form
HasLower(ch) == \E k \in 1..26 : UPPER[k] = ch

\* both functions give the lowercased name with "-" and "." replaced by "_",
\* the same for both, and a second application changes nothing
NormalizeAgrees ==
    /\ normalize_package_name(call.name) = Normalized(call.name)
    /\ normalize_import_name(call.name) = normalize_package_name(call.name)
    /\ normalize_package_name(normalize_package_name(call.name))
          = normalize_package_name(call.name)
    /\ normalize_import_name(normalize_import_name(call.name))
          = normalize_import_name(call.name)
    /\ pc \in {"package_name", "import_name"} => ret = Normalized(call.name)
    /\ call.name = <<"M", "y", "-", "T", "o", "o", "l", ".", "X">> =>
          normalize_package_name(call.name)
              = <<"m", "y", "_", "t", "o", "o", "l", "_", "x">>

\* the second application of a function returns what it was given
SecondCallReturnsArgument ==
    [][pc' \in {"package_name_again", "import_name_again"} => ret' = ret]_vars

\* C13 (as claimed): normalizing is idempotent, gives the lowercased name
\* with every "-" and "." replaced by "_", the same from both functions, and
\* the result holds no "-", no "." and no uppercase letter.
C13_NormalizeNoUppercase ==
    /\ [](pc /= "normalize" =>
            /\ NormalizeAgrees
            /\ \A i \in 1..Len(ret) : ret[i] \notin {"-", "."} /\ ~IsUpper(ret[i]))
    /\ SecondCallReturnsArgument

\* C13 (amended): as claimed, but the result holds no "-", no "." and no
\* letter that has a lowercase form; an uppercase letter without one stays.
C13_NormalizeIdempotentShared ==
    /\ [](pc /= "normalize" =>
            /\ NormalizeAgrees
            /\ \A i \in 1..Len(ret) : ret[i] \notin {"-", "."} /\ ~HasLower(ret[i]))
    /\ SecondCallReturnsArgument

\* "My-Tool.X" was normalized twice and is "my_tool_x"
C13_Witness ==
    /\ pc = "package_name_again"
    /\ call.name = <<"M", "y", "-", "T", "o", "o", "l", ".", "X">>
    /\ ret = <<"m", "y", "_", "t", "o", "o", "l", "_", "x">>

-----------------------------------------------------------------------------
(* The platform table and the helpers of the driver *)

k_linux_amd64 == <<"l", "i", "n", "u", "x", "-", "a", "m", "d", "6", "4">>
k_linux_arm64 == <<"l", "i", "n", "u", "x", "-", "a", "r", "m", "6", "4">>
k_linux_amd64_musl == <<"l", "i", "n", "u", "x", "-", "a", "m", "d", "6", "4", "-", "m", "u", "s", "l">>
k_linux_arm64_musl == <<"l", "i", "n", "u", "x", "-", "a", "r", "m", "6", "4", "-", "m", "u", "s", "l">>
k_darwin_amd64 == <<"d", "a", "r", "w", "i", "n", "-", "a", "m", "d", "6", "4">>
k_darwin_arm64 == <<"d", "a", "r", "w", "i", "n", "-", "a", "r", "m", "6", "4">>
k_windows_amd64 == <<"w", "i", "n", "d", "o", "w", "s", "-", "a", "m", "d", "6", "4">>
k_windows_arm64 == <<"w", "i", "n", "d", "o", "w", "s", "-", "a", "r", "m", "6", "4">>

\* PLATFORM_MAPPINGS with the tag of linux-arm64 repeated for linux-arm64-musl
PLATFORM_MAPPINGS_arm64_tag_twice ==
    (k_linux_amd64      :> <<"linux", "amd64", "manylinux_2_17_x86_64">>) @@
    (k_linux_arm64      :> <<"linux", "arm64", "manylinux_2_17_aarch64">>) @@
    (k_linux_amd64_musl :> <<"linux", "amd64", "musllinux_1_2_x86_64">>) @@
    (k_linux_arm64_musl :> <<"linux", "arm64", "manylinux_2_17_aarch64">>) @@
    (k_darwin_amd64     :> <<"darwin", "amd64", "macosx_10_9_x86_64">>) @@
    (k_darwin_arm64     :> <<"darwin", "arm64", "macosx_11_0_arm64">>) @@
    (k_windows_amd64    :> <<"windows", "amd64", "win_amd64">>) @@
    (k_windows_arm64    :> <<"windows", "arm64", "win_arm64">>)

\* platform key -> (goos, goarch, wheel platform tag)
PLATFORM_MAPPINGS ==
    (k_linux_amd64      :> <<"linux", "amd64", "manylinux_2_17_x86_64">>) @@
    (k_linux_arm64      :> <<"linux", "arm64", "manylinux_2_17_aarch64">>) @@
    (k_linux_amd64_musl :> <<"linux", "amd64", "musllinux_1_2_x86_64">>) @@
    (k_linux_arm64_musl :> <<"linux", "arm64", "musllinux_1_2_aarch64">>) @@
    (k_darwin_amd64     :> <<"darwin", "amd64", "macosx_10_9_x86_64">>) @@
    (k_darwin_arm64     :> <<"darwin", "arm64", "macosx_11_0_arm64">>) @@
    (k_windows_amd64    :> <<"windows", "amd64", "win_amd64">>) @@
    (k_windows_arm64    :> <<"windows", "arm64", "win_arm64">>)

DEFAULT_PLATFORMS ==
    <<k_linux_amd64, k_linux_arm64, k_linux_amd64_musl, k_linux_arm64_musl,
      k_darwin_amd64, k_darwin_arm64, k_windows_amd64, k_windows_arm64>>

\* a list variable holding None
NoneList == <<None>>

\* str.split(sep) for a one-character sep
split(s, sep) ==
    LET cuts == {i \in 1..Len(s) : s[i] = sep}
        n == Cardinality(cuts) + 1
        cut(k) == IF k = 0 THEN 0
                  ELSE IF k = n THEN Len(s) + 1
                  ELSE CHOOSE i \in cuts : Cardinality({j \in cuts : j < i}) = k - 1
    IN  [k \in 1..n |-> SubSeq(s, cut(k - 1) + 1, cut(k) - 1)]

\* str.strip()
strip(s) ==
    LET keep == {i \in 1..Len(s) : s[i] \notin {" ", "\t", "\n", "\r"}}
    IN  IF keep = {} THEN <<>>
        ELSE SubSeq(s, CHOOSE i \in keep : \A j \in keep : i <= j,
                       CHOOSE i \in keep : \A j \in keep : j <= i)

RECURSIVE join_with(_, _)
\* sep.join(parts)
join_with(parts, sep) ==
    IF Len(parts) = 0 THEN <<>>
    ELSE IF Len(parts) = 1 THEN parts[1]
    ELSE parts[1] \o <<sep>> \o join_with(Tail(parts), sep)

\* str(Path(p)): empty and "." segments dropped, no trailing "/"
path_str(p) ==
    LET segs == SelectSeq(split(p, "/"), LAMBDA x : x /= <<>> /\ x /= <<".">>)
    IN  IF Len(p) > 0 /\ p[1] = "/" THEN <<"/">> \o join_with(segs, "/")
        ELSE IF Len(segs) = 0 THEN <<".">>
        ELSE join_with(segs, "/")

\* platform_str is only built when it is a key of the table
known_platform_linux_only(platform_str) ==
    /\ platform_str \in DOMAIN PLATFORM_MAPPINGS
    /\ PLATFORM_MAPPINGS[platform_str][1] = "linux"

\* platform_str in PLATFORM_MAPPINGS
known_platform(platform_str) == platform_str \in DOMAIN PLATFORM_MAPPINGS

TMP_DIR == <<"/", "t", "m", "p", "/", "t", "m", "p", "d", "i", "r">>

\* binary_path of the target platform_str
binary_path_of(entry_point, platform_str) ==
    LET is_windows == PLATFORM_MAPPINGS[platform_str][1] = "windows"
        binary_ext == IF is_windows THEN EXE ELSE <<>>
    IN  path_join(TMP_DIR, entry_point \o <<"_">> \o platform_str \o binary_ext)

\* the executable a successful `go build` leaves at output_path
go_build_output(goos, goarch) == <<"0x7F", goos, goarch>>

\* what compile_go_binary hands to subprocess.run, and how the run ended
compile_run(platform_str, output_path, found, returncode, err) ==
    LET m == PLATFORM_MAPPINGS[platform_str]
        ldflags_value ==
            <<"-s -w">> \o (IF Truthy(loc.combined_ldflags)
                            THEN <<" ">> \o loc.combined_ldflags ELSE <<>>)
    IN  [platform |-> platform_str,
         cmd |-> <<args.go_binary, <<"build">>, <<"-ldflags=">> \o ldflags_value,
                   <<"-o">>, output_path, <<".">> >>,
         cwd |-> args.go_dir,
         GOOS |-> m[1], GOARCH |-> m[2], CGO_ENABLED |-> "0",
         started |-> found, returncode |-> returncode, stderr |-> err]

NoExc == [type |-> "", msg |-> <<>>]

\* raise type(msg)
Raise(type, msg) ==
    /\ exc' = [type |-> type, msg |-> msg]
    /\ pc' = "raised"

-----------------------------------------------------------------------------
(* main and build_wheels *)

\* main, from parse_args to the call of build_wheels
MainStart ==
    /\ pc = "main"
    /\ loc' = [loc EXCEPT !.platforms =
                 IF Truthy(args.platforms)
                 THEN LET items == split(args.platforms, ",")
                      IN  [i \in 1..Len(items) |-> strip(items[i])]
                 ELSE NoneList]
    /\ stdout' = stdout \o << <<"go-to-wheel v0.1.0">>,
                              <<"Building from ">> \o args.go_dir,
                              <<>> >>
    /\ pc' = "validate_go_dir"
    /\ UNCHANGED <<wheel_vars, args, env, idx, built_wheels, stderr, compiles,
                   packs, tmp, out_dir_made, exc, exit_code, sh, par, bw>>

\* ValidateGoDir without the test for go.mod
ValidateGoDir_no_go_mod_test ==
    /\ pc = "validate_go_dir"
    /\ IF env.go_dir = "missing"
       THEN Raise("FileNotFoundError", <<"Go directory not found: ">> \o args.go_dir)
       ELSE pc' = "read_readme" /\ exc' = exc
    /\ UNCHANGED <<wheel_vars, args, env, idx, built_wheels, stdout, stderr,
                   compiles, packs, tmp, out_dir_made, exit_code, loc, sh, par, bw>>

\* build_wheels: the source directory must exist and hold go.mod
ValidateGoDir ==
    /\ pc = "validate_go_dir"
    /\ IF env.go_dir = "missing"
       THEN Raise("FileNotFoundError", <<"Go directory not found: ">> \o args.go_dir)
       ELSE IF env.go_dir = "no_go_mod"
       THEN Raise("ValueError", <<"Not a Go module: ">> \o args.go_dir
                                \o <<" (no go.mod file found)">>)
       ELSE pc' = "read_readme" /\ exc' = exc
    /\ UNCHANGED <<wheel_vars, args, env, idx, built_wheels, stdout, stderr,
                   compiles, packs, tmp, out_dir_made, exit_code, loc, sh, par, bw>>

\* build_wheels: the README, when one is named, must exist and is read
ReadReadme ==
    /\ pc = "read_readme"
    /\ IF Truthy(args.readme)
       THEN IF env.readme_file = None
            THEN Raise("FileNotFoundError", <<"README file not found: ">> \o args.readme)
                 /\ loc' = loc
            ELSE /\ loc' = [loc EXCEPT !.readme_content = env.readme_file]
                 /\ pc' = "set_defaults" /\ exc' = exc
       ELSE pc' = "set_defaults" /\ exc' = exc /\ loc' = loc
    /\ UNCHANGED <<wheel_vars, args, env, idx, built_wheels, stdout, stderr,
                   compiles, packs, tmp, out_dir_made, exit_code, sh, par, bw>>

\* build_wheels: defaults of name, entry_point and platforms; combined ldflags
SetDefaults ==
    /\ pc = "set_defaults"
    /\ LET name == IF args.name = None THEN env.go_name ELSE args.name
           entry_point == IF args.entry_point = None THEN name ELSE args.entry_point
           platforms == IF loc.platforms = NoneList THEN DEFAULT_PLATFORMS
                        ELSE loc.platforms
           parts == (IF Truthy(args.set_version_var)
                     THEN << <<"-X ">> \o args.set_version_var \o <<"=">>
                             \o args.version >>
                     ELSE <<>>)
                    \o (IF Truthy(args.ldflags) THEN <<args.ldflags>> ELSE <<>>)
       IN  loc' = [loc EXCEPT !.name = name, !.entry_point = entry_point,
                              !.platforms = platforms,
                              !.combined_ldflags =
                                  IF Len(parts) > 0 THEN join_with(parts, " ")
                                  ELSE None]
    /\ pc' = "make_output_dir"
    /\ UNCHANGED <<wheel_vars, args, env, idx, built_wheels, stdout, stderr,
                   compiles, packs, tmp, out_dir_made, exc, exit_code, sh, par, bw>>

\* build_wheels: the output directory is created, the loop is entered
MakeOutputDir ==
    /\ pc = "make_output_dir"
    /\ loc' = [loc EXCEPT !.out_path = path_str(args.output_dir)]
    /\ out_dir_made' = TRUE
    /\ built_wheels' = <<>>
    /\ idx' = 1
    /\ pc' = "loop"
    /\ UNCHANGED <<wheel_vars, args, env, stdout, stderr, compiles, packs, tmp,
                   exc, exit_code, sh, par, bw>>

InLoop == pc = "loop" /\ idx <= Len(loc.platforms)
platform_str == loc.platforms[idx]

\* a platform that is not in the table: warning, next platform
SkipUnknown ==
    /\ InLoop
    /\ ~known_platform(platform_str)
    /\ stdout' = Append(stdout, <<"Warning: Unknown platform ">> \o platform_str
                                \o <<", skipping">>)
    /\ idx' = idx + 1
    /\ UNCHANGED <<pc, wheel_vars, args, env, built_wheels, stderr, compiles,
                   packs, tmp, out_dir_made, exc, exit_code, loc, sh, par, bw>>

\* compile_go_binary returns: the executable is at binary_path
CompileSucceeds ==
    /\ InLoop
    /\ known_platform(platform_str)
    /\ env.go_found
    /\ LET m == PLATFORM_MAPPINGS[platform_str]
           binary_path == binary_path_of(loc.entry_point, platform_str)
       IN  /\ compiles' = Append(compiles,
                                 compile_run(platform_str, binary_path, TRUE, 0, <<>>))
           /\ tmp' = write_file(tmp, binary_path, go_build_output(m[1], m[2]))
           /\ loc' = [loc EXCEPT !.binary_path = binary_path]
    /\ pc' = "pack"
    /\ UNCHANGED <<wheel_vars, args, env, idx, built_wheels, stdout, stderr, packs,
                   out_dir_made, exc, exit_code, sh, par, bw>>

\* CompileFails without the `except RuntimeError`: the error leaves build_wheels
CompileFails_not_caught ==
    /\ InLoop
    /\ known_platform(platform_str)
    /\ env.go_found
    /\ \E err \in {<<"main.go:1: syntax error">>} :
         LET m == PLATFORM_MAPPINGS[platform_str]
             binary_path == binary_path_of(loc.entry_point, platform_str)
             e == <<"Go compilation failed for ", m[1], "/", m[2], ":\n">> \o err
         IN  /\ compiles' = Append(compiles,
                                   compile_run(platform_str, binary_path, TRUE, 1, err))
             /\ loc' = [loc EXCEPT !.binary_path = binary_path]
             /\ Raise("RuntimeError", e)
    /\ tmp' = EmptyFs
    /\ UNCHANGED <<wheel_vars, args, env, idx, built_wheels, stdout, stderr, packs,
                   out_dir_made, exit_code, sh, par, bw>>

\* the compiler exits nonzero: compile_go_binary raises RuntimeError, which
\* build_wheels turns into a warning before it goes on to the next platform
CompileFails ==
    /\ InLoop
    /\ known_platform(platform_str)
    /\ env.go_found
    /\ \E err \in {<<"main.go:1: syntax error">>} :
         LET m == PLATFORM_MAPPINGS[platform_str]
             binary_path == binary_path_of(loc.entry_point, platform_str)
             e == <<"Go compilation failed for ", m[1], "/", m[2], ":\n">> \o err
         IN  /\ compiles' = Append(compiles,
                                   compile_run(platform_str, binary_path, TRUE, 1, err))
             /\ loc' = [loc EXCEPT !.binary_path = binary_path]
             /\ stdout' = Append(stdout, <<"Warning: ">> \o e)
    /\ idx' = idx + 1
    /\ UNCHANGED <<pc, wheel_vars, args, env, built_wheels, stderr, packs, tmp,
                   out_dir_made, exc, exit_code, sh, par, bw>>

\* the compiler cannot be started: subprocess.run raises FileNotFoundError,
\* which leaves build_wheels (and removes the temporary directory)
CompilerNotFound ==
    /\ InLoop
    /\ known_platform(platform_str)
    /\ ~env.go_found
    /\ LET binary_path == binary_path_of(loc.entry_point, platform_str)
       IN  /\ compiles' = Append(compiles,
                                 compile_run(platform_str, binary_path, FALSE, 0, <<>>))
           /\ loc' = [loc EXCEPT !.binary_path = binary_path]
    /\ tmp' = EmptyFs
    /\ Raise("FileNotFoundError", <<"No such file or directory: ">> \o args.go_binary)
    /\ UNCHANGED <<wheel_vars, args, env, idx, built_wheels, stdout, stderr, packs,
                   out_dir_made, exit_code, sh, par, bw>>

\* the arguments build_wheels gives build_wheel for the current platform
pack_call ==
    LET m == PLATFORM_MAPPINGS[platform_str]
    IN  [binary_content |-> tmp[loc.binary_path], output_dir |-> loc.out_path,
         name |-> loc.name, version |-> args.version, platform_tag |-> m[3],
         entry_point |-> loc.entry_point, is_windows |-> (m[1] = "windows"),
         description |-> args.description,
         requires_python |-> args.requires_python, author |-> args.author,
         author_email |-> args.author_email, license_ |-> args.license_,
         url |-> args.url, readme_content |-> loc.readme_content]

\* build_wheel is called and returns; its path is appended to built_wheels
PackWheel ==
    /\ pc = "pack"
    /\ call' = pack_call
    /\ disk' = write_file(disk, wheel_path_of(pack_call),
                          zip_archive(wheel_files(pack_call)))
    /\ ret' = wheel_path_of(pack_call)
    /\ packs' = Append(packs, [platform |-> platform_str,
                               path |-> wheel_path_of(pack_call), ok |-> TRUE])
    /\ built_wheels' = Append(built_wheels, wheel_path_of(pack_call))
    /\ idx' = idx + 1
    /\ pc' = "loop"
    /\ UNCHANGED <<args, env, stdout, stderr, compiles, tmp, out_dir_made, exc,
                   exit_code, loc, sh, par, bw>>

\* writing the archive fails (OSError from zipfile): nothing was opened, or
\* the file at wheel_path was truncated and holds the entries written so far;
\* the error leaves build_wheels
PackWheelFails ==
    /\ pc = "pack"
    /\ call' = pack_call
    /\ ret' = None
    /\ \/ disk' = disk
       \/ \E k \in {0, 3} :
            disk' = write_file(disk, wheel_path_of(pack_call),
                        [entries |-> SubSeq(zip_archive(wheel_files(pack_call)).entries,
                                            1, k),
                         closed  |-> FALSE])
    /\ packs' = Append(packs, [platform |-> platform_str,
                               path |-> wheel_path_of(pack_call), ok |-> FALSE])
    /\ tmp' = EmptyFs
    /\ Raise("OSError", <<"[Errno 28] No space left on device">>)
    /\ UNCHANGED <<args, env, idx, built_wheels, stdout, stderr, compiles,
                   out_dir_made, exit_code, loc, sh, par, bw>>

\* the loop is over: the temporary directory is removed, build_wheels returns
ReturnWheels ==
    /\ pc = "loop"
    /\ idx > Len(loc.platforms)
    /\ tmp' = EmptyFs
    /\ pc' = "returned"
    /\ UNCHANGED <<wheel_vars, args, env, idx, built_wheels, stdout, stderr,
                   compiles, packs, out_dir_made, exc, exit_code, loc, sh, par, bw>>

\* main: except (FileNotFoundError, ValueError)
MainCaught ==
    /\ pc = "raised"
    /\ exc.type \in {"FileNotFoundError", "ValueError"}
    /\ stderr' = Append(stderr, <<"Error: ">> \o exc.msg)
    /\ exit_code' = 1
    /\ pc' = "exited"
    /\ UNCHANGED <<wheel_vars, args, env, idx, built_wheels, stdout, compiles,
                   packs, tmp, out_dir_made, exc, loc, sh, par, bw>>

\* main: any other exception is not caught; the interpreter prints the
\* traceback and exits with status 1
MainUncaught ==
    /\ pc = "raised"
    /\ exc.type \notin {"FileNotFoundError", "ValueError"}
    /\ stderr' = Append(stderr, <<"Traceback (most recent call last): ", exc.type,
                                  ": ">> \o exc.msg)
    /\ exit_code' = 1
    /\ pc' = "exited"
    /\ UNCHANGED <<wheel_vars, args, env, idx, built_wheels, stdout, compiles,
                   packs, tmp, out_dir_made, exc, loc, sh, par, bw>>

\* MainNoWheels without its `return 1`: main goes on to `return 0`
MainNoWheels_returns_0 ==
    /\ pc = "returned"
    /\ Len(built_wheels) = 0
    /\ stderr' = Append(stderr, <<"Error: No wheels were built">>)
    /\ exit_code' = 0
    /\ pc' = "exited"
    /\ UNCHANGED <<wheel_vars, args, env, idx, built_wheels, stdout, compiles,
                   packs, tmp, out_dir_made, exc, loc, sh, par, bw>>

\* main: if not wheels
MainNoWheels ==
    /\ pc = "returned"
    /\ Len(built_wheels) = 0
    /\ stderr' = Append(stderr, <<"Error: No wheels were built">>)
    /\ exit_code' = 1
    /\ pc' = "exited"
    /\ UNCHANGED <<wheel_vars, args, env, idx, built_wheels, stdout, compiles,
                   packs, tmp, out_dir_made, exc, loc, sh, par, bw>>

\* main: the list of built wheels is printed, return 0
MainBuilt ==
    /\ pc = "returned"
    /\ Len(built_wheels) > 0
    /\ stdout' = stdout
                 \o << <<"Built ", ToString(Len(built_wheels)), " wheel(s):">> >>
                 \o [i \in 1..Len(built_wheels) |-> <<"  ">> \o built_wheels[i]]
    /\ exit_code' = 0
    /\ pc' = "exited"
    /\ UNCHANGED <<wheel_vars, args, env, idx, built_wheels, stderr, compiles,
                   packs, tmp, out_dir_made, exc, loc, sh, par, bw>>

-----------------------------------------------------------------------------
(* The runs of the command *)

n_go_example == <<"g", "o", "-", "e", "x", "a", "m", "p", "l", "e">>
p_README_md == <<"R", "E", "A", "D", "M", "E", ".", "m", "d">>
d_dot_dist == <<".", "/", "d", "i", "s", "t">>
k_plan9_386 == <<"p", "l", "a", "n", "9", "-", "3", "8", "6">>
raw_windows_amd64 == <<" ", "w", "i", "n", "d", "o", "w", "s", "-", "a", "m", "d", "6", "4">>

\* the items a --platforms value is made of: a key, a key with a blank
\* before it, and a key that is not in the table
PlatformItems == {k_linux_amd64, raw_windows_amd64, k_plan9_386}

\* every --platforms value of at most MaxPlatforms items (the empty one too),
\* and no --platforms at all
PlatformArgs ==
    {None} \cup {join_with(l, ",") :
                    l \in UNION {[1..n -> PlatformItems] : n \in 0..MaxPlatforms}}

\* the other options of the command line, in four combinations
Options ==
    { [name |-> None, entry_point |-> None, version |-> v_1_0_0,
       output_dir |-> d_dot_dist, ldflags |-> None, set_version_var |-> None,
       attrs |-> 1],
      [name |-> n_My_Tool_X, entry_point |-> e_tool, version |-> v_2_3_4,
       output_dir |-> d_out_slash, ldflags |-> <<"-X main.commit=abc">>,
       set_version_var |-> <<"main.version">>, attrs |-> 2],
      [name |-> n_my_cool_tool, entry_point |-> None, version |-> v_1_0_0,
       output_dir |-> d_dist, ldflags |-> None,
       set_version_var |-> <<"main.version">>, attrs |-> 3],
      [name |-> None, entry_point |-> e_RECORD, version |-> v_2_3_4,
       output_dir |-> d_dist, ldflags |-> <<"-X main.commit=abc">>,
       set_version_var |-> None, attrs |-> 1] }

AttributesOf(n) ==
    CHOOSE a \in Attributes :
        \/ n = 1 /\ a.author = None
        \/ n = 2 /\ a.author = <<"Ann">>
        \/ n = 3 /\ a.author = <<>>

CommandLine(o, platforms, readme) ==
    [go_dir |-> <<"./example">>, name |-> o.name, version |-> o.version,
     output_dir |-> o.output_dir, entry_point |-> o.entry_point,
     platforms |-> platforms, go_binary |-> <<"go">>, readme |-> readme,
     ldflags |-> o.ldflags, set_version_var |-> o.set_version_var,
     description |-> AttributesOf(o.attrs).description,
     requires_python |-> AttributesOf(o.attrs).requires_python,
     author |-> AttributesOf(o.attrs).author,
     author_email |-> AttributesOf(o.attrs).author_email,
     license_ |-> AttributesOf(o.attrs).license_,
     url |-> AttributesOf(o.attrs).url]

\* README: not asked for, asked for and missing, asked for and there
ReadmeCases ==
    { <<None, None>>, <<p_README_md, None>>, <<p_README_md, <<"#", " ", "H", "i">> >> }

Init ==
    /\ pc = "main"
    /\ \E o \in Options, platforms \in PlatformArgs, r \in ReadmeCases :
          /\ args = CommandLine(o, platforms, r[1])
          /\ \E d \in {"missing", "no_go_mod", "module"}, found \in BOOLEAN :
                env = [go_dir |-> d, go_name |-> n_go_example,
                       readme_file |-> r[2], go_found |-> found]
    /\ call = NoCall /\ ret = None /\ disk = EmptyFs
    /\ idx = 0 /\ built_wheels = <<>> /\ stdout = <<>> /\ stderr = <<>>
    /\ compiles = <<>> /\ packs = <<>> /\ tmp = EmptyFs
    /\ out_dir_made = FALSE /\ exc = NoExc /\ exit_code = -1 /\ loc = NoLoc
    /\ sh = ShIdle
    /\ par = NoTargets
    /\ bw = NoFrame

Next ==
    \/ MainStart \/ ValidateGoDir \/ ReadReadme \/ SetDefaults \/ MakeOutputDir
    \/ SkipUnknown \/ CompileSucceeds \/ CompileFails \/ CompilerNotFound
    \/ PackWheel \/ ReturnWheels
    \/ MainCaught \/ MainNoWheels \/ MainBuilt

Spec == Init /\ [][Next]_vars

\* the same runs on a file system where writing an archive can fail
NextFault == Next \/ PackWheelFails \/ MainUncaught

SpecFault == Init /\ [][NextFault]_vars

-----------------------------------------------------------------------------
(* Per-target builds side by side: for two platform keys, compile_go_binary *)
(* and then build_wheel, the steps of the two in any order                  *)

\* the arguments the two builds share: name, version, output directory, ...
SharedArguments ==
    { WheelCall(out, name, v_1_0_0, "", ep, FALSE, <<>>, None, AttributesOf(1)) :
        out \in {d_dist}, name \in {n_my_cool_tool, n_bin}, ep \in {e_tool} }

\* the arguments of build_wheel for the target key
target_call(key) ==
    LET m == PLATFORM_MAPPINGS[key]
        binary_path == binary_path_of(call.entry_point, key)
    IN  [call EXCEPT !.platform_tag = m[3],
                     !.is_windows = (m[1] = "windows"),
                     !.binary_content =
                         IF binary_path \in DOMAIN tmp THEN tmp[binary_path] ELSE <<>>]

InitParallel ==
    /\ pc = "parallel"
    /\ call \in SharedArguments
    /\ \E k1, k2 \in DOMAIN PLATFORM_MAPPINGS :
          /\ k1 /= k2
          /\ par = [k \in {k1, k2} |-> [pc |-> "compile", written |-> 0]]
    /\ ret = None
    /\ disk = EmptyFs
    /\ DriverIdle
    /\ sh = ShIdle
    /\ bw = NoFrame

\* compile_go_binary(go_dir, binary_path, goos, goarch, ...)
ParCompile(key) ==
    /\ par[key].pc = "compile"
    /\ LET m == PLATFORM_MAPPINGS[key]
       IN  tmp' = write_file(tmp, binary_path_of(call.entry_point, key),
                             go_build_output(m[1], m[2]))
    /\ par' = [par EXCEPT ![key].pc = "open"]
    /\ UNCHANGED <<pc, wheel_vars, args, env, idx, built_wheels, stdout, stderr,
                   compiles, packs, out_dir_made, exc, exit_code, loc, sh, bw>>

\* build_wheel up to zipfile.ZipFile(wheel_path, "w"): the file is there, empty
ParOpen(key) ==
    /\ par[key].pc = "open"
    /\ disk' = write_file(disk, wheel_path_of(target_call(key)),
                          [entries |-> <<>>, closed |-> FALSE])
    /\ par' = [par EXCEPT ![key].pc = "write"]
    /\ UNCHANGED <<pc, call, ret, driver_vars, sh, bw>>

\* whl.writestr: the next item of files goes to the end of the file
ParWrite(key) ==
    /\ par[key].pc = "write"
    /\ LET path == wheel_path_of(target_call(key))
           entries == zip_archive(wheel_files(target_call(key))).entries
           n == par[key].written + 1
       IN  /\ disk' = [disk EXCEPT ![path].entries = Append(@, entries[n])]
           /\ par' = [par EXCEPT ![key].written = n,
                                 ![key].pc = IF n = Len(entries) THEN "close"
                                             ELSE "write"]
    /\ UNCHANGED <<pc, call, ret, driver_vars, sh, bw>>

\* the end of the with block: the archive is closed, build_wheel returns
ParClose(key) ==
    /\ par[key].pc = "close"
    /\ disk' = [disk EXCEPT ![wheel_path_of(target_call(key))].closed = TRUE]
    /\ par' = [par EXCEPT ![key].pc = "done"]
    /\ UNCHANGED <<pc, call, ret, driver_vars, sh, bw>>

NextParallel ==
    \E key \in DOMAIN par :
        ParCompile(key) \/ ParOpen(key) \/ ParWrite(key) \/ ParClose(key)

SpecParallel == InitParallel /\ [][NextParallel]_vars

\* the archive path and the temporary path of a key, for the shared arguments
ArchivePathOf(key) ==
    call.output_dir \o <<"/">> \o Normalized(call.name) \o <<"-">> \o call.version
    \o <<"-", "p", "y", "3", "-", "n", "o", "n", "e", "-">>
    \o <<PLATFORM_MAPPINGS[key][3]>> \o <<".", "w", "h", "l">>
TemporaryPathOf(key) == binary_path_of(call.entry_point, key)

\* the file at a path holds entries of the archive of key only, in order
OwnEntriesOnly(key) ==
    ArchivePathOf(key) \in DOMAIN disk =>
        LET file == disk[ArchivePathOf(key)]
            own == zip_archive(wheel_files(target_call(key))).entries
        IN  /\ Len(file.entries) = par[key].written
            /\ file.entries = SubSeq(own, 1, par[key].written)
            /\ file.closed <=> par[key].pc = "done"
            /\ file.closed => file.entries = own

\* a step of one build leaves the files of the other as they are
OthersFilesUntouched ==
    [][\A key \in DOMAIN par :
          par'[key] = par[key] =>
            /\ (ArchivePathOf(key) \in DOMAIN disk =>
                    /\ ArchivePathOf(key) \in DOMAIN disk'
                    /\ disk'[ArchivePathOf(key)] = disk[ArchivePathOf(key)])
            /\ (TemporaryPathOf(key) \in DOMAIN tmp =>
                    /\ TemporaryPathOf(key) \in DOMAIN tmp'
                    /\ tmp'[TemporaryPathOf(key)] = tmp[TemporaryPathOf(key)])]_vars

\* C15: two different keys of the platform table have different platform
\* tags, different archive paths and different temporary paths, so of two
\* builds whose steps run in any order each writes only its own files, and
\* each archive is complete and its own when its build is done.
C15_DistinctFiles ==
    /\ [](\A k1, k2 \in DOMAIN PLATFORM_MAPPINGS :
            k1 /= k2 =>
              /\ PLATFORM_MAPPINGS[k1][3] /= PLATFORM_MAPPINGS[k2][3]
              /\ ArchivePathOf(k1) /= ArchivePathOf(k2)
              /\ TemporaryPathOf(k1) /= TemporaryPathOf(k2))
    /\ [](\A key \in DOMAIN par :
            /\ par[key].pc \in {"write", "close", "done"}
                  => ArchivePathOf(key) \in DOMAIN disk
            /\ OwnEntriesOnly(key))
    /\ OthersFilesUntouched

\* linux-amd64 is done and its archive closed while windows-amd64 has written
\* three entries of its own
C15_Witness ==
    /\ DOMAIN par = {k_linux_amd64, k_windows_amd64}
    /\ par[k_linux_amd64].pc = "done"
    /\ par[k_windows_amd64].pc = "write" /\ par[k_windows_amd64].written = 3
    /\ disk[ArchivePathOf(k_linux_amd64)].closed
    /\ Len(disk[ArchivePathOf(k_linux_amd64)].entries) = 7
    /\ Len(disk[ArchivePathOf(k_windows_amd64)].entries) = 3

-----------------------------------------------------------------------------
(* The generated launcher: main() of the installed {import_name}/__init__.py *)

\* permission bits the bundled executable can have when the launcher starts
FileModes ==
    {u * 64 + g * 8 + o : u \in {0, 4, 6, 7}, g \in {0, 1, 4, 5}, o \in {0, 1, 4, 5}}
HostPlatforms == {"win32", "linux", "darwin"}

f_abs_init_py == <<"/", "v", "/", "t", "o", "o", "l", "/">> \o INIT_PY
f_rel_init_py == <<"t", "o", "o", "l", "/">> \o INIT_PY
f_win_init_py == <<"C", ":", "\\", "v", "\\", "t", "o", "o", "l", "\\">> \o INIT_PY

\* __file__ of the installed package: where the launcher finds itself
LauncherFiles(platform) ==
    IF platform = "win32" THEN {f_win_init_py} ELSE {f_abs_init_py, f_rel_init_py}

\* sys.argv of the launcher: the script, then no argument, two arguments, or
\* three with one repeated and one empty
ArgLists ==
    { << <<"t", "o", "o", "l">> >>,
      << <<"t", "o", "o", "l">>, <<"-", "-", "e", "c", "h", "o">>, <<"h", "i", " ", "y", "o", "u">> >>,
      << <<"t", "o", "o", "l">>, <<"h", "i", " ", "y", "o", "u">>, <<>>, <<"h", "i", " ", "y", "o", "u">> >> }

\* an exit code of a Windows process is a 32-bit unsigned number, kept here as
\* its high and low 16-bit halves; among them 0xC0000005 (access violation)
ChildExitCodes ==
    { <<0, 0>>, <<0, 1>>, <<0, 3>>, <<0, 256>>, <<32767, 65535>>,
      <<32768, 0>>, <<49152, 5>>, <<65535, 65535>> }

\* the separators os.path knows on the host
seps(platform) == IF platform = "win32" THEN {"\\", "/"} ELSE {"/"}

\* os.path.dirname(p)
os_path_dirname(platform, p) ==
    LET at == {i \in 1..Len(p) : p[i] \in seps(platform)}
        i == IF at = {} THEN 0 ELSE CHOOSE x \in at : \A y \in at : y <= x
        head == SubSeq(p, 1, i)
        kept == {k \in 1..Len(head) : head[k] \notin seps(platform)}
    IN  IF kept = {} THEN head
        ELSE SubSeq(head, 1, CHOOSE x \in kept : \A y \in kept : y <= x)

\* os.path.join(a, b) for a relative b
os_path_join(platform, a, b) ==
    IF a = <<>> \/ a[Len(a)] \in seps(platform) THEN a \o b
    ELSE a \o <<IF platform = "win32" THEN "\\" ELSE "/">> \o b

\* the name between the template blocks of the generated module: what the
\* f-string put in place of {binary_name}
binary_name_in(source) ==
    LET i == CHOOSE k \in 1..Len(source) : source[k] = INIT_PY_GET_BINARY_PATH
        j == CHOOSE k \in 1..Len(source) : source[k] = INIT_PY_MAIN
    IN  SubSeq(source, i + 1, j - 1)

\* get_binary_path() of the generated module installed at file
get_binary_path(platform, file, source) ==
    os_path_join(platform,
                 os_path_join(platform, os_path_dirname(platform, file), BIN_DIR),
                 binary_name_in(source))

\* the exit code of the interpreter after sys.exit(n) on Windows: n is read
\* into a C long of 32 bits, and a number that does not fit gives -1
sys_exit_windows(n) == IF n[1] < 32768 THEN n ELSE <<65535, 65535>>

InitLauncher ==
    /\ pc = "launcher"
    /\ \E platform \in HostPlatforms, m \in FileModes, argv \in ArgLists :
         \E file \in LauncherFiles(platform) :
            sh = [pc |-> "main", platform |-> platform,
                  file_mode |-> S_IFREG + m, mode0 |-> S_IFREG + m,
                  current_mode |-> 0, stat_calls |-> 0, chmod_calls |-> 0,
                  how |-> "", invoked_mode |-> -1,
                  file |-> file,
                  binary_name |-> binary_name_of(e_tool, platform = "win32"),
                  argv |-> argv, binary |-> <<>>,
                  python |-> "running", child |-> NoProcess, image |-> NoProcess,
                  exit_status |-> Running]
    /\ call = NoCall /\ ret = None /\ disk = EmptyFs
    /\ DriverIdle
    /\ par = NoTargets
    /\ bw = NoFrame

\* the mode handed to os.chmod, with S_IXUSR alone
chmod_mode_owner_only(current_mode) == BitOr(current_mode, S_IXUSR)

\* current_mode | stat.S_IXUSR | stat.S_IXGRP | stat.S_IXOTH
chmod_mode(current_mode) ==
    BitOr(current_mode, BitOr(S_IXUSR, BitOr(S_IXGRP, S_IXOTH)))

\* binary = get_binary_path(); on win32 the permission block is skipped
ShStart ==
    /\ sh.pc = "main"
    /\ sh' = [sh EXCEPT !.binary =
                            get_binary_path(sh.platform, sh.file,
                                            generate_init_py(v_1_0_0, sh.binary_name)),
                        !.pc = IF sh.platform /= "win32" THEN "stat" ELSE "invoke"]
    /\ UNCHANGED <<pc, wheel_vars, driver_vars, par, bw>>

\* current_mode = os.stat(binary).st_mode
ShStat ==
    /\ sh.pc = "stat"
    /\ sh' = [sh EXCEPT !.current_mode = sh.file_mode,
                        !.stat_calls = @ + 1,
                        !.pc = IF BitAnd(sh.file_mode, S_IXUSR) = 0
                               THEN "chmod" ELSE "invoke"]
    /\ UNCHANGED <<pc, wheel_vars, driver_vars, par, bw>>

\* os.chmod(binary, current_mode | S_IXUSR | S_IXGRP | S_IXOTH)
ShChmod ==
    /\ sh.pc = "chmod"
    /\ sh' = [sh EXCEPT !.file_mode =
                            S_IFREG + (chmod_mode(sh.current_mode) % CHMOD_RANGE),
                        !.chmod_calls = @ + 1,
                        !.pc = "invoke"]
    /\ UNCHANGED <<pc, wheel_vars, driver_vars, par, bw>>

\* os.chmod raises (the file belongs to another user): main ends with the error
ShChmodDenied ==
    /\ sh.pc = "chmod"
    /\ sh' = [sh EXCEPT !.chmod_calls = @ + 1, !.pc = "error",
                        !.python = "exited", !.exit_status = <<0, 1>>]
    /\ UNCHANGED <<pc, wheel_vars, driver_vars, par, bw>>

\* child_argv with sys.argv whole, its first element too
child_argv_keeps_script(binary, argv) == <<binary>> \o argv

\* [binary] + sys.argv[1:]
child_argv(binary, argv) == <<binary>> \o Tail(argv)

\* subprocess.call([binary] + sys.argv[1:]) starts the child and waits for it
ShSpawn ==
    /\ sh.pc = "invoke"
    /\ sh.platform = "win32"
    /\ sh' = [sh EXCEPT !.how = "subprocess.call",
                        !.invoked_mode = sh.file_mode,
                        !.child = [file |-> sh.binary,
                                   argv |-> child_argv(sh.binary, sh.argv),
                                   state |-> "running", returncode |-> <<0, 0>>],
                        !.pc = "invoked"]
    /\ UNCHANGED <<pc, wheel_vars, driver_vars, par, bw>>

\* the child ends with some exit code; subprocess.call returns it
ShChildExits ==
    /\ sh.pc = "invoked"
    /\ sh.child.state = "running"
    /\ \E code \in ChildExitCodes :
          sh' = [sh EXCEPT !.child.state = "exited", !.child.returncode = code,
                           !.pc = "sys_exit"]
    /\ UNCHANGED <<pc, wheel_vars, driver_vars, par, bw>>

\* sys.exit(returncode): the interpreter ends
ShSysExit ==
    /\ sh.pc = "sys_exit"
    /\ sh' = [sh EXCEPT !.exit_status = sys_exit_windows(sh.child.returncode),
                        !.python = "exited", !.pc = "exited"]
    /\ UNCHANGED <<pc, wheel_vars, driver_vars, par, bw>>

\* os.execvp(binary, [binary] + sys.argv[1:]): binary holds a separator, so
\* PATH is not searched; the process goes on as the program in that file
ShExec ==
    /\ sh.pc = "invoke"
    /\ sh.platform /= "win32"
    /\ sh' = [sh EXCEPT !.how = "os.execvp",
                        !.invoked_mode = sh.file_mode,
                        !.image = [file |-> sh.binary,
                                   argv |-> child_argv(sh.binary, sh.argv),
                                   state |-> "running", returncode |-> <<0, 0>>],
                        !.python = "replaced",
                        !.pc = "invoked"]
    /\ UNCHANGED <<pc, wheel_vars, driver_vars, par, bw>>

NextLauncher ==
    \/ ShStart \/ ShStat \/ ShChmod \/ ShChmodDenied
    \/ ShSpawn \/ ShChildExits \/ ShSysExit \/ ShExec

SpecLauncher == InitLauncher /\ [][NextLauncher]_vars

\* C10: on a non-Windows host the executable's owner-execute bit is set at
\* the moment the launcher invokes it: a file that lacked the bit got the
\* owner, group and other execute bits added to its mode, all other bits
\* kept, before the invocation, and a file that had it keeps its mode; on a
\* Windows host the mode is never read and never changed.
C10_ExecutableWhenInvoked ==
    /\ sh.platform = "win32" =>
          /\ sh.stat_calls = 0 /\ sh.chmod_calls = 0
          /\ sh.file_mode = sh.mode0
    /\ sh.invoked_mode /= -1 <=> sh.pc \in {"invoked", "sys_exit", "exited"}
    /\ (sh.pc = "invoked" /\ sh.platform /= "win32") =>
          /\ (sh.invoked_mode \div 64) % 2 = 1
          /\ sh.file_mode = sh.invoked_mode
          /\ IF (sh.mode0 \div 64) % 2 = 0
             THEN /\ sh.chmod_calls = 1
                  /\ \A b \in 0..15 :
                        (sh.invoked_mode \div (2 ^ b)) % 2 =
                            (IF b \in {0, 3, 6} THEN 1
                             ELSE (sh.mode0 \div (2 ^ b)) % 2)
             ELSE /\ sh.chmod_calls = 0
                  /\ sh.invoked_mode = sh.mode0
    /\ sh.file_mode /= sh.mode0 => (sh.mode0 \div 64) % 2 = 0

\* a file with mode 0644 is invoked with mode 0755
C10_Witness ==
    /\ sh.pc = "invoked"
    /\ sh.platform = "linux"
    /\ sh.mode0 = 32768 + 420
    /\ sh.invoked_mode = 32768 + 493
    /\ sh.how = "os.execvp"

\* the arguments of a started program after its argument 0 are the
\* launcher's own arguments after its argv[0], as many and in the same order
ArgumentsForwarded(p) ==
    /\ Len(p.argv) = Len(sh.argv)
    /\ \A i \in 2..Len(sh.argv) : p.argv[i] = sh.argv[i]

\* C11 (as claimed): on a Windows host the launcher starts the bundled
\* executable as a child with all of its own arguments in order, is still
\* there while the child runs, and once the child has ended exits with
\* exactly the child's exit code, whatever that code is.
C11_ExitStatusRelay ==
    sh.platform = "win32" =>
        /\ sh.image = NoProcess
        /\ sh.child.state /= "none" =>
              /\ sh.how = "subprocess.call"
              /\ sh.child.file = sh.binary
              /\ ArgumentsForwarded(sh.child)
        /\ sh.child.state = "running" =>
              sh.python = "running" /\ sh.exit_status = Running
        /\ sh.python = "exited" =>
              /\ sh.child.state = "exited"
              /\ sh.exit_status = sh.child.returncode

\* bin/{binary_name} next to the launcher's own file
BundledExecutable == DirPrefix(sh.file) \o <<"b", "i", "n", "/">> \o sh.binary_name

\* C12 (as claimed): on a non-Windows host the launcher's process goes on
\* as the executable at bin/{binary_name} next to the launcher, with
\* argument 0 the binary name and the launcher's own arguments after it,
\* and no child process is made.
C12_ReplacedArg0IsBinaryName ==
    sh.platform /= "win32" =>
        /\ sh.child = NoProcess
        /\ sh.pc = "invoked" <=> sh.python = "replaced"
        /\ sh.python = "replaced" =>
              /\ sh.how = "os.execvp"
              /\ sh.image.state = "running"
              /\ sh.image.file = BundledExecutable
              /\ sh.image.argv[1] = sh.binary_name
              /\ ArgumentsForwarded(sh.image)

\* C12 (amended): as claimed, but argument 0 is the path of the executable
\* as the launcher resolved it, not the bare binary name.
C12_ReplacedArg0IsPath ==
    sh.platform /= "win32" =>
        /\ sh.child = NoProcess
        /\ sh.pc = "invoked" <=> sh.python = "replaced"
        /\ sh.python = "replaced" =>
              /\ sh.how = "os.execvp"
              /\ sh.image.state = "running"
              /\ sh.image.file = BundledExecutable
              /\ sh.image.argv[1] = BundledExecutable
              /\ ArgumentsForwarded(sh.image)

\* the launcher at /v/tool/__init__.py, run with three arguments, has become
\* /v/tool/bin/tool with the same three
C12_Witness ==
    /\ sh.platform = "linux"
    /\ sh.python = "replaced"
    /\ sh.file = f_abs_init_py
    /\ sh.argv = << <<"t", "o", "o", "l">>, <<"h", "i", " ", "y", "o", "u">>, <<>>,
                    <<"h", "i", " ", "y", "o", "u">> >>
    /\ sh.image.file = <<"/", "v", "/", "t", "o", "o", "l", "/", "b", "i", "n", "/", "t", "o", "o", "l">>
    /\ sh.image.argv = << sh.image.file, <<"h", "i", " ", "y", "o", "u">>, <<>>,
                          <<"h", "i", " ", "y", "o", "u">> >>

-----------------------------------------------------------------------------
(* Claims about a run of the command *)

\* the requested platforms that are keys of the table, as positions and in order
RequestedKnown ==
    {i \in 1..Len(loc.platforms) : loc.platforms[i] \in DOMAIN PLATFORM_MAPPINGS}
RequestedKnownSeq ==
    SelectSeq(loc.platforms, LAMBDA k : k \in DOMAIN PLATFORM_MAPPINGS)

InvalidSource == env.go_dir \in {"missing", "no_go_mod"}
MissingReadme == Truthy(args.readme) /\ env.readme_file = None
EveryCompileSucceeded ==
    \A i \in 1..Len(compiles) : compiles[i].started /\ compiles[i].returncode = 0
SomeArchiveWritten == \E i \in 1..Len(packs) : packs[i].ok

\* C5: when the compiler succeeds for every target, build_wheels raises no
\* error and returns one archive path per requested platform that is in the
\* table (N for N valid keys, N-1 when one is unknown); every returned path is
\* an archive on disk, there are as many archive files as distinct valid keys,
\* and the compiler is never run for an unknown key.
C5_ArchiveCount ==
    /\ \A i \in 1..Len(compiles) : compiles[i].platform \in DOMAIN PLATFORM_MAPPINGS
    /\ (~InvalidSource /\ ~MissingReadme /\ EveryCompileSucceeded) =>
          /\ pc /= "raised" /\ exc = NoExc
          /\ pc \in {"returned", "exited"} =>
                /\ Len(built_wheels) = Cardinality(RequestedKnown)
                /\ Len(compiles) = Cardinality(RequestedKnown)
                /\ \A i \in 1..Len(built_wheels) :
                      /\ built_wheels[i] \in DOMAIN disk
                      /\ disk[built_wheels[i]].closed
                      /\ Len(disk[built_wheels[i]].entries) = 7
                /\ Cardinality(DOMAIN disk)
                      = Cardinality({loc.platforms[i] : i \in RequestedKnown})

\* three platforms requested, one of them unknown: two archives
C5_Witness ==
    /\ pc = "exited" /\ exit_code = 0
    /\ EveryCompileSucceeded
    /\ Len(loc.platforms) = 3
    /\ Cardinality(RequestedKnown) = 2
    /\ Len(built_wheels) = 2
    /\ Cardinality(DOMAIN disk) = 2

\* the step in which the compiler was run and exited nonzero
CompilerFailedStep ==
    /\ Len(compiles') = Len(compiles) + 1
    /\ compiles'[Len(compiles')].started
    /\ compiles'[Len(compiles')].returncode /= 0

\* C6: when the compiler exits nonzero for a target, build_wheels prints a
\* warning that carries the captured stderr, does not call build_wheel for
\* the target, adds no path for it, and goes on with the next requested
\* target; a run that returns has tried every requested target in order.
C6_CompileFailureNonFatal ==
    /\ [][CompilerFailedStep =>
            /\ Len(stdout') = Len(stdout) + 1
            /\ SubSeq(stdout', 1, Len(stdout)) = stdout
            /\ stdout'[Len(stdout')][1] = "Warning: "
            /\ endswith(stdout'[Len(stdout')], compiles'[Len(compiles')].stderr)
            /\ Len(compiles'[Len(compiles')].stderr) > 0
            /\ packs' = packs /\ built_wheels' = built_wheels /\ disk' = disk
            /\ exc' = NoExc /\ pc' = "loop" /\ idx' = idx + 1]_vars
    /\ [](pc = "returned" =>
            /\ [j \in 1..Len(compiles) |-> compiles[j].platform] = RequestedKnownSeq
            /\ Len(packs) = Cardinality({j \in 1..Len(compiles) :
                                            compiles[j].returncode = 0})
            /\ Len(built_wheels) = Len(packs))

\* a target failed to compile and a later target was built
C6_Witness ==
    /\ pc = "returned"
    /\ \E i \in 1..Len(compiles) :
          /\ compiles[i].returncode /= 0
          /\ \E j \in (i + 1)..Len(compiles) :
                /\ compiles[j].returncode = 0
                /\ \E k \in 1..Len(packs) : packs[k].platform = compiles[j].platform
    /\ Len(built_wheels) = 1

\* C7: with a missing source directory (FileNotFoundError), a source
\* directory without go.mod (ValueError) or a named README that is missing
\* (FileNotFoundError), build_wheels raises before any compilation, before
\* the output directory is created and before any archive is written.
C7_FatalInputErrorsFirst ==
    (InvalidSource \/ MissingReadme) =>
        /\ compiles = <<>> /\ packs = <<>> /\ built_wheels = <<>>
        /\ ~out_dir_made
        /\ disk = EmptyFs /\ tmp = EmptyFs
        /\ pc \in {"main", "validate_go_dir", "read_readme", "raised", "exited"}
        /\ pc \in {"raised", "exited"} =>
              exc.type = (IF env.go_dir = "missing" THEN "FileNotFoundError"
                          ELSE IF env.go_dir = "no_go_mod" THEN "ValueError"
                          ELSE "FileNotFoundError")
        /\ pc = "read_readme" => ~InvalidSource

\* the README is missing and three platforms were requested
C7_Witness ==
    /\ pc = "raised"
    /\ ~InvalidSource /\ MissingReadme
    /\ exc.type = "FileNotFoundError"
    /\ Len(loc.platforms) = 3
    /\ ~out_dir_made

\* C8 (as claimed): exit code 0 whenever at least one archive was written
\* during the run, 1 when the source directory is invalid or no archive was
\* produced; the run fails only for an invalid source directory, a missing
\* README or an empty set of archives.
C8_ExitCode ==
    pc = "exited" =>
        /\ SomeArchiveWritten => exit_code = 0
        /\ (InvalidSource \/ ~SomeArchiveWritten) => exit_code = 1
        /\ exit_code /= 0 => (InvalidSource \/ MissingReadme \/ ~SomeArchiveWritten)

\* C8 (amended): exit code 0 exactly when build_wheels returns at least one
\* archive path (an archive was written and no error left build_wheels), 1
\* when the source directory is invalid or no archive was produced; the run
\* fails only for an invalid source directory, a missing README, an empty set
\* of archives, or a failure while an archive was written.
C8_ExitCodeOfReturnedRun ==
    pc = "exited" =>
        /\ exit_code \in {0, 1}
        /\ exit_code = 0 <=> (exc = NoExc /\ Len(built_wheels) > 0)
        /\ (SomeArchiveWritten /\ exc = NoExc) => exit_code = 0
        /\ (InvalidSource \/ ~SomeArchiveWritten) => exit_code = 1
        /\ exit_code /= 0 =>
              \/ InvalidSource \/ MissingReadme \/ ~SomeArchiveWritten
              \/ \E i \in 1..Len(packs) : ~packs[i].ok

\* an archive was written, the next one failed, and the command exits with 1
C8_Witness ==
    /\ pc = "exited"
    /\ exit_code = 1
    /\ SomeArchiveWritten
    /\ exc.type = "OSError"
    /\ \E p \in DOMAIN disk : disk[p].closed

\* the step is the failure of the target in turn: the compiler could not be
\* started or ended nonzero, or the archive could not be written
TargetFails ==
    \/ /\ Len(compiles') = Len(compiles) + 1
       /\ LET c == compiles'[Len(compiles')]
          IN  ~c.started \/ c.returncode /= 0
    \/ /\ Len(packs') = Len(packs) + 1
       /\ ~packs'[Len(packs')].ok

\* the file at path is the same complete archive before and after the step
KeptWhole(path) ==
    /\ path \in DOMAIN disk /\ path \in DOMAIN disk'
    /\ disk'[path] = disk[path]
    /\ disk'[path].closed

\* C14 (as claimed): when a target fails, in its compilation or in the
\* writing of its archive, every archive an earlier item of the requested
\* list wrote is unchanged and complete, also when the list repeats a key.
C14_EarlierArchivesKept ==
    [][TargetFails => \A i \in 1..Len(packs) : packs[i].ok => KeptWhole(packs[i].path)]_vars

\* C14 (amended): when a target fails, every archive written for another
\* platform key is unchanged and complete; the archive an earlier item with
\* the failing target's own key wrote is the file the failed write reopened.
C14_OtherKeysArchivesKept ==
    [][TargetFails =>
         \A i \in 1..Len(packs) :
            (packs[i].ok /\ packs[i].platform /= loc.platforms[idx])
                => KeptWhole(packs[i].path)]_vars

\* the archive of one key is complete, and a later target with another key
\* has failed in the middle of writing its own
C14_Witness ==
    \E i, j \in 1..Len(packs) :
        /\ i < j
        /\ packs[i].ok /\ ~packs[j].ok
        /\ packs[i].platform /= packs[j].platform
        /\ disk[packs[i].path].closed
        /\ packs[j].path \in DOMAIN disk
        /\ ~disk[packs[j].path].closed
        /\ Len(disk[packs[j].path].entries) = 3

\* the OS id of a platform key is windows
WindowsKey(key) ==
    Len(key) >= 8 /\ SubSeq(key, 1, 8) = <<"w", "i", "n", "d", "o", "w", "s", "-">>

\* the entry-point name, with .exe for a Windows key
ExecutableNameFor(key) ==
    loc.entry_point \o (IF WindowsKey(key) THEN <<".", "e", "x", "e">> ELSE <<>>)

\* the path the launcher of an archive resolves when the package is installed
\* on a host the archive is for
ResolvedByLauncher(key, source) ==
    IF WindowsKey(key)
    THEN get_binary_path("win32", f_win_init_py, source)
    ELSE get_binary_path("linux", f_abs_init_py, source)

\* C16: every archive build_wheels wrote holds the executable at
\* {import_name}/bin/{binary_name}, where binary_name is the entry-point name
\* with .exe appended exactly when the OS id of the platform key is windows,
\* and the launcher in the same archive resolves bin/{binary_name} with the
\* same name; the Windows flag handed to build_wheel is true exactly for
\* those keys.
C16_BinaryName ==
    /\ \A i \in 1..Len(packs) :
          LET key == packs[i].platform
              archive == disk[packs[i].path]
              name == ExecutableNameFor(key)
          IN  /\ archive.entries[3].filename
                    = Normalized(loc.name) \o <<"/", "b", "i", "n", "/">> \o name
              /\ archive.entries[1].filename
                    = Normalized(loc.name) \o <<"/">> \o INIT_PY
              /\ ResolvedByLauncher(key, archive.entries[1].data)
                    = (IF WindowsKey(key)
                       THEN <<"C", ":", "\\", "v", "\\", "t", "o", "o", "l", "\\", "b", "i", "n", "\\">>
                       ELSE <<"/", "v", "/", "t", "o", "o", "l", "/", "b", "i", "n", "/">>)
                      \o name
              /\ endswith(name, <<".", "e", "x", "e">>) <=> WindowsKey(key)
    /\ Len(packs) > 0 =>
          (call.is_windows <=> WindowsKey(packs[Len(packs)].platform))

\* one run has packed tool for linux-amd64 and tool.exe for windows-amd64
C16_Witness ==
    \E i, j \in 1..Len(packs) :
        /\ packs[i].platform = <<"l", "i", "n", "u", "x", "-", "a", "m", "d", "6", "4">>
        /\ packs[j].platform = <<"w", "i", "n", "d", "o", "w", "s", "-", "a", "m", "d", "6", "4">>
        /\ BaseName(disk[packs[i].path].entries[3].filename) = <<"t", "o", "o", "l">>
        /\ BaseName(disk[packs[j].path].entries[3].filename)
              = <<"t", "o", "o", "l", ".", "e", "x", "e">>

=============================================================================
